---- MODULE Spec2Model ----
(***************************************************************************)
(* Point-of-sale terminal: the persisted collections of                    *)
(* services/localStorageService.ts (products, stock logs, sales, stock     *)
(* transfers), the operations of ProductService, SaleService and           *)
(* StockTransferService on them, the cashier view (pages/CashierView       *)
(* with components/PaymentModal) that drives SaleService.processSale, and  *)
(* the figures computed from the sale ledger (SaleService.getDailyTotals   *)
(* and the AnalyticsDashboard page).                                       *)
(*                                                                         *)
(* Amounts are integers (a currency unit small enough that every price is  *)
(* whole); Date.now() is the variable clock, advanced by Tick.             *)
(***************************************************************************)
EXTENDS Integers, Sequences, FiniteSets, TLC

VARIABLES
  products,      \* localStorage pos_products: Product[]
  stockLogs,     \* localStorage pos_stock_logs: StockLog[], newest first
  sales,         \* localStorage pos_sales: SaleRecord[], newest first
  transfers,     \* localStorage pos_stock_transfers: StockTransfer[]
  clock,         \* Date.now()
  result,        \* the value returned by the last service call
  cart,          \* CashierView state: CartItem[]
  showPayment,   \* CashierView state: the payment dialog is mounted
  completedSale, \* CashierView state: SaleRecord | null (as a sequence of 0 or 1)
  modal,         \* PaymentModal state: amountPaid, paymentMethod, isProcessing
  timers,        \* PaymentModal.handleSubmit calls waiting on their setTimeout
  dashboard      \* AnalyticsDashboard state: sales, dateRange and its memos

storage == <<products, stockLogs, sales, transfers>>
view == <<cart, showPayment, completedSale, modal, timers>>
vars == <<products, stockLogs, sales, transfers, clock, result,
          cart, showPayment, completedSale, modal, timers, dashboard>>

(***************************************************************************)
(* Bounds of the model.                                                    *)
(***************************************************************************)
MaxStock == 2
MaxSales == 1
MaxLedger == 2
MaxLogs == 1
MaxTransfers == 2
MaxClock == 1
MaxTimers == 2

(***************************************************************************)
(* Program constants.                                                      *)
(***************************************************************************)
taxRate == 0

Barcodes == {"1234567890", "2345678901"}
Statuses == {"pending", "completed", "cancelled"}

(***************************************************************************)
(* Returned values: { success, error? }.                                   *)
(***************************************************************************)
Ok == [success |-> TRUE, error |-> ""]
Fail(msg) == [success |-> FALSE, error |-> msg]
NoCall == [success |-> TRUE, error |-> "none"]

(***************************************************************************)
(* Array helpers: products.find / findIndex by barcode; 0 stands for -1    *)
(* (and for undefined).                                                    *)
(***************************************************************************)
RECURSIVE FindFrom(_, _, _)
FindFrom(s, b, i) ==
  IF i > Len(s) THEN 0
  ELSE IF s[i].barcode = b THEN i
  ELSE FindFrom(s, b, i + 1)

findIndex(s, b) == FindFrom(s, b, 1)

(***************************************************************************)
(* Array.unshift: the new record goes to index 0 (the head).               *)
(***************************************************************************)
unshift_AtEnd(list, record) == Append(list, record)

unshift_Replace(list, record) == <<record>>

unshift(list, record) == <<record>> \o list

(***************************************************************************)
(* number.toString(36).toUpperCase(): the digits of n in base 36, most     *)
(* significant first, each digit as its value 0..35.                       *)
(***************************************************************************)
RECURSIVE toString36(_)
toString36(n) ==
  IF n < 36 THEN <<n>> ELSE Append(toString36(n \div 36), n % 36)

(***************************************************************************)
(* ProductService.  Each operation is an operator from the stored          *)
(* collections to the value it returns (ret) and the collections it        *)
(* leaves in storage.                                                      *)
(***************************************************************************)
isBarcodeUnique_ExcludesItself(barcode) ==
  ~ \E i \in 1..Len(products) :
      products[i].barcode = barcode /\ products[i].barcode # barcode

\* Called with one argument: excludeBarcode is undefined and excludes nothing.
isBarcodeUnique(barcode) ==
  ~ \E i \in 1..Len(products) : products[i].barcode = barcode

add(product) ==
  IF ~ isBarcodeUnique(product.barcode)
    THEN [ret |-> Fail("Barcode already exists"), products |-> products]
  ELSE IF product.price <= 0
    THEN [ret |-> Fail("Price must be positive"), products |-> products]
  ELSE IF product.stock < 0
    THEN [ret |-> Fail("Stock cannot be negative"), products |-> products]
  ELSE [ret |-> Ok, products |-> Append(products, product)]

\* { ...product, ...updates }: updates is a function on the fields it gives.
Spread(product, updates) ==
  [f \in DOMAIN product |->
     IF f \in DOMAIN updates THEN updates[f] ELSE product[f]]

update_PriceOnly(barcode, updates) ==
  LET index == findIndex(products, barcode) IN
  IF index = 0
    THEN [ret |-> Fail("Product not found"), products |-> products]
  ELSE IF "price" \in DOMAIN updates /\ updates["price"] <= 0
    THEN [ret |-> Fail("Price must be positive"), products |-> products]
  ELSE [ret |-> Ok,
        products |-> [products EXCEPT ![index] = Spread(products[index], updates)]]

update(barcode, updates) ==
  LET index == findIndex(products, barcode) IN
  IF index = 0
    THEN [ret |-> Fail("Product not found"), products |-> products]
  ELSE IF "price" \in DOMAIN updates /\ updates["price"] <= 0
    THEN [ret |-> Fail("Price must be positive"), products |-> products]
  ELSE IF "stock" \in DOMAIN updates /\ updates["stock"] < 0
    THEN [ret |-> Fail("Stock cannot be negative"), products |-> products]
  ELSE [ret |-> Ok,
        products |-> [products EXCEPT ![index] = Spread(products[index], updates)]]

delete(barcode) ==
  LET filtered == SelectSeq(products, LAMBDA p : p.barcode # barcode) IN
  IF Len(filtered) = Len(products)
    THEN [ret |-> Fail("Product not found"), products |-> products]
  ELSE [ret |-> Ok, products |-> filtered]

restock_LogAfterWrite(barcode, quantity, performedBy) ==
  LET index == findIndex(products, barcode) IN
  IF quantity <= 0
    THEN [ret |-> Fail("Quantity must be positive"),
          products |-> products, stockLogs |-> stockLogs]
  ELSE IF index = 0
    THEN [ret |-> Fail("Product not found"),
          products |-> products, stockLogs |-> stockLogs]
  ELSE
    LET newStock == products[index].stock + quantity
        log == [id |-> <<"log", clock>>,
                barcode |-> barcode,
                productName |-> products[index].name,
                previousStock |-> newStock,
                newStock |-> newStock + quantity,
                quantityAdded |-> quantity,
                timestamp |-> clock,
                performedBy |-> performedBy]
    IN [ret |-> Ok,
        products |-> [products EXCEPT ![index].stock = newStock],
        stockLogs |-> unshift(stockLogs, log)]

restock_AnyQuantity(barcode, quantity, performedBy) ==
  LET index == findIndex(products, barcode) IN
  IF index = 0
    THEN [ret |-> Fail("Product not found"),
          products |-> products, stockLogs |-> stockLogs]
  ELSE
    LET previousStock == products[index].stock
        newStock == previousStock + quantity
        log == [id |-> <<"log", clock>>,
                barcode |-> barcode,
                productName |-> products[index].name,
                previousStock |-> previousStock,
                newStock |-> newStock,
                quantityAdded |-> quantity,
                timestamp |-> clock,
                performedBy |-> performedBy]
    IN [ret |-> Ok,
        products |-> [products EXCEPT ![index].stock = newStock],
        stockLogs |-> unshift(stockLogs, log)]

restock_StockOnly(barcode, quantity, performedBy) ==
  LET index == findIndex(products, barcode) IN
  IF quantity <= 0
    THEN [ret |-> Fail("Quantity must be positive"),
          products |-> products, stockLogs |-> stockLogs]
  ELSE IF index = 0
    THEN [ret |-> Fail("Product not found"),
          products |-> products, stockLogs |-> stockLogs]
  ELSE [ret |-> Ok,
        products |-> [products EXCEPT ![index].stock = @ + quantity],
        stockLogs |-> stockLogs]

restock(barcode, quantity, performedBy) ==
  LET index == findIndex(products, barcode) IN
  IF quantity <= 0
    THEN [ret |-> Fail("Quantity must be positive"),
          products |-> products, stockLogs |-> stockLogs]
  ELSE IF index = 0
    THEN [ret |-> Fail("Product not found"),
          products |-> products, stockLogs |-> stockLogs]
  ELSE
    LET previousStock == products[index].stock
        newStock == previousStock + quantity
        log == [id |-> <<"log", clock>>,
                barcode |-> barcode,
                productName |-> products[index].name,
                previousStock |-> previousStock,
                newStock |-> newStock,
                quantityAdded |-> quantity,
                timestamp |-> clock,
                performedBy |-> performedBy]
    IN [ret |-> Ok,
        products |-> [products EXCEPT ![index].stock = newStock],
        stockLogs |-> unshift(stockLogs, log)]

(***************************************************************************)
(* SaleService.                                                            *)
(***************************************************************************)
generateReceiptNumber(random) == <<"RCP", toString36(clock), random>>

RECURSIVE SumTotals_Prices(_)
SumTotals_Prices(items) ==
  IF items = <<>> THEN 0 ELSE Head(items).price + SumTotals_Prices(Tail(items))

RECURSIVE SumTotals(_)
SumTotals(items) ==
  IF items = <<>> THEN 0 ELSE Head(items).total + SumTotals(Tail(items))

RECURSIVE CheckStock_FoundOnly(_, _)
CheckStock_FoundOnly(ps, items) ==
  IF items = <<>> THEN Ok
  ELSE IF FindFrom(ps, Head(items).barcode, 1) = 0
    THEN Fail("Product " \o Head(items).name \o " not found")
  ELSE CheckStock_FoundOnly(ps, Tail(items))

CheckStock_HeadOnly(ps, items) ==
  IF items = <<>> THEN Ok
  ELSE LET item == Head(items)
           index == FindFrom(ps, item.barcode, 1)
       IN IF index = 0
            THEN Fail("Product " \o item.name \o " not found")
          ELSE IF ps[index].stock < item.quantity
            THEN Fail("Insufficient stock for " \o item.name \o ". Available: "
                      \o ToString(ps[index].stock))
          ELSE Ok

CheckStock_TrustCart(ps, items) == Ok

\* The stock check loop: the value returned at the first line that fails,
\* and Ok when every line passes.
RECURSIVE CheckStock(_, _)
CheckStock(ps, items) ==
  IF items = <<>> THEN Ok
  ELSE LET item == Head(items)
           index == findIndex(ps, item.barcode)
       IN IF index = 0
            THEN Fail("Product " \o item.name \o " not found")
          ELSE IF ps[index].stock < item.quantity
            THEN Fail("Insufficient stock for " \o item.name \o ". Available: "
                      \o ToString(ps[index].stock))
          ELSE CheckStock(ps, Tail(items))

\* The deduction loop.
RECURSIVE DeductStock(_, _)
DeductStock(ps, items) ==
  IF items = <<>> THEN ps
  ELSE LET item == Head(items)
           productIndex == findIndex(ps, item.barcode)
       IN DeductStock(
            IF productIndex # 0
              THEN [ps EXCEPT ![productIndex].stock = @ - item.quantity]
              ELSE ps,
            Tail(items))

InsufficientPayment_Inverted(amountPaid, total) == total < amountPaid

ChangeDue_Swapped(amountPaid, total) == total - amountPaid

\* The payment validation and the change due.
InsufficientPayment(amountPaid, total) == amountPaid < total

ChangeDue(amountPaid, total) == amountPaid - total

processSale(items, paymentMethod, amountPaid, cashierName, storeId, storeName, random) ==
  LET subtotal == SumTotals(items)
      tax == subtotal * taxRate
      total == subtotal + tax
      change == ChangeDue(amountPaid, total)
      checked == CheckStock(products, items)
      sale == [id |-> <<"sale", clock>>,
               receiptNumber |-> generateReceiptNumber(random),
               items |-> items,
               subtotal |-> subtotal,
               tax |-> tax,
               total |-> total,
               paymentMethod |-> paymentMethod,
               amountPaid |-> amountPaid,
               change |-> change,
               cashierName |-> cashierName,
               storeId |-> storeId,
               storeName |-> storeName,
               timestamp |-> clock]
      unchanged == [products |-> products, sales |-> sales, sale |-> <<>>]
  IN
  IF Len(items) = 0
    THEN [ret |-> Fail("No items in cart")] @@ unchanged
  ELSE IF InsufficientPayment(amountPaid, total)
    THEN [ret |-> Fail("Insufficient payment amount")] @@ unchanged
  ELSE IF ~ checked.success
    THEN [ret |-> checked] @@ unchanged
  ELSE [ret |-> Ok,
        products |-> DeductStock(products, items),
        sales |-> unshift(sales, sale),
        sale |-> <<sale>>]

(***************************************************************************)
(* StockTransferService.                                                   *)
(***************************************************************************)
FindTransfer(transferId) ==
  LET hits == {i \in 1..Len(transfers) : transfers[i].id = transferId} IN
  IF hits = {} THEN 0 ELSE CHOOSE i \in hits : \A j \in hits : i <= j

create(transfer) ==
  \* completedAt is optional: <<>> stands for a field that is not set.
  LET newTransfer == [id |-> <<"transfer", clock>>, timestamp |-> clock]
                       @@ transfer @@ [completedAt |-> <<>>]
  IN [ret |-> Ok, transfers |-> Append(transfers, newTransfer)]

complete_AnyStatus(transferId) ==
  LET index == FindTransfer(transferId) IN
  IF index = 0
    THEN [ret |-> Fail("Transfer not found"), transfers |-> transfers]
  ELSE [ret |-> Ok,
        transfers |-> [transfers EXCEPT ![index].status = "completed",
                                        ![index].completedAt = <<clock>>]]

complete(transferId) ==
  LET index == FindTransfer(transferId) IN
  IF index = 0
    THEN [ret |-> Fail("Transfer not found"), transfers |-> transfers]
  ELSE IF transfers[index].status # "pending"
    THEN [ret |-> Fail("Transfer is not pending"), transfers |-> transfers]
  ELSE [ret |-> Ok,
        transfers |-> [transfers EXCEPT ![index].status = "completed",
                                        ![index].completedAt = <<clock>>]]

cancel(transferId) ==
  LET index == FindTransfer(transferId) IN
  IF index = 0
    THEN [ret |-> Fail("Transfer not found"), transfers |-> transfers]
  ELSE IF transfers[index].status # "pending"
    THEN [ret |-> Fail("Can only cancel pending transfers"), transfers |-> transfers]
  ELSE [ret |-> Ok,
        transfers |-> [transfers EXCEPT ![index].status = "cancelled"]]

(***************************************************************************)
(* Service calls as steps of the program: the call's effect on storage     *)
(* and the value it returns.  Nothing outside storage changes.             *)
(***************************************************************************)
CallAdd(product) ==
  LET r == add(product) IN
  /\ products' = r.products
  /\ result' = r.ret
  /\ UNCHANGED <<stockLogs, sales, transfers, clock, view, dashboard>>

\* A catalog update that is carried into the lines of the recorded sales.
CallUpdate_Cascade(barcode, updates) ==
  LET r == update(barcode, updates)
      Renew(item) ==
        IF item.barcode = barcode /\ r.ret.success
          THEN [f \in DOMAIN item |->
                  IF f \in DOMAIN updates THEN updates[f] ELSE item[f]]
          ELSE item
  IN
  /\ products' = r.products
  /\ sales' = [i \in 1..Len(sales) |->
                [sales[i] EXCEPT !.items =
                   [k \in 1..Len(sales[i].items) |-> Renew(sales[i].items[k])]]]
  /\ result' = r.ret
  /\ UNCHANGED <<stockLogs, transfers, clock, view, dashboard>>

CallUpdate(barcode, updates) ==
  LET r == update(barcode, updates) IN
  /\ products' = r.products
  /\ result' = r.ret
  /\ UNCHANGED <<stockLogs, sales, transfers, clock, view, dashboard>>

CallDelete(barcode) ==
  LET r == delete(barcode) IN
  /\ products' = r.products
  /\ result' = r.ret
  /\ UNCHANGED <<stockLogs, sales, transfers, clock, view, dashboard>>

CallRestock(barcode, quantity, performedBy, cap) ==
  LET r == restock(barcode, quantity, performedBy) IN
  /\ Len(stockLogs) < cap
  /\ \A i \in 1..Len(r.products) : r.products[i].stock <= MaxStock
  /\ products' = r.products
  /\ stockLogs' = r.stockLogs
  /\ result' = r.ret
  /\ UNCHANGED <<sales, transfers, clock, view, dashboard>>

CallProcessSale(items, paymentMethod, amountPaid, random, cap) ==
  LET r == processSale(items, paymentMethod, amountPaid,
                       "John Doe", "store-001", "Main Store", random) IN
  /\ Len(sales) < cap
  /\ products' = r.products
  /\ sales' = r.sales
  /\ result' = r.ret
  /\ UNCHANGED <<stockLogs, transfers, clock, view, dashboard>>

CallCreate(transfer) ==
  LET r == create(transfer) IN
  /\ Len(transfers) < MaxTransfers
  /\ transfers' = r.transfers
  /\ result' = r.ret
  /\ UNCHANGED <<products, stockLogs, sales, clock, view, dashboard>>

\* A completion that takes the transferred units out of the catalog.
CallComplete_MovesStock(transferId) ==
  LET r == complete(transferId)
      index == FindTransfer(transferId)
  IN
  /\ transfers' = r.transfers
  /\ result' = r.ret
  /\ products' =
       IF r.ret.success
         THEN [i \in 1..Len(products) |->
                 IF products[i].barcode = transfers[index].barcode
                   THEN [products[i] EXCEPT !.stock = @ - transfers[index].quantity]
                   ELSE products[i]]
         ELSE products
  /\ UNCHANGED <<stockLogs, sales, clock, view, dashboard>>

CallComplete(transferId) ==
  LET r == complete(transferId) IN
  /\ transfers' = r.transfers
  /\ result' = r.ret
  /\ UNCHANGED <<products, stockLogs, sales, clock, view, dashboard>>

CallCancel(transferId) ==
  LET r == cancel(transferId) IN
  /\ transfers' = r.transfers
  /\ result' = r.ret
  /\ UNCHANGED <<products, stockLogs, sales, clock, view, dashboard>>

\* Time passes: the next Date.now() is later.
Tick ==
  /\ clock < MaxClock
  /\ clock' = clock + 1
  /\ UNCHANGED <<storage, result, view, dashboard>>

(***************************************************************************)
(* The state after initializeStorage() and the first render of the         *)
(* cashier view: the sample catalog (its first two products, prices in     *)
(* cents), no log, no sale, no transfer, an empty cart.                    *)
(***************************************************************************)
INITIAL_PRODUCTS ==
  << [barcode |-> "1234567890", name |-> "Laptop Computer", price |-> 89999,
      stock |-> 2, category |-> "Electronics"],
     [barcode |-> "2345678901", name |-> "Wireless Mouse", price |-> 2999,
      stock |-> 1, category |-> "Peripherals"] >>

\* The dashboard before any sale is loaded: no sales, the default range of
\* 30 days, the figures of no sale and no forecast (null).
NoDashboard ==
  [sales |-> <<>>, dateRange |-> "30d", filteredSales |-> <<>>,
   analytics |-> [totalRevenue |-> 0, totalOrders |-> 0,
                  growthRate |-> [num |-> 0, den |-> 1]],
   forecast |-> <<>>]

NoModal == [amountPaid |-> 0, paymentMethod |-> "cash", isProcessing |-> FALSE]

Init ==
  /\ products = INITIAL_PRODUCTS
  /\ stockLogs = <<>>
  /\ sales = <<>>
  /\ transfers = <<>>
  /\ clock = 0
  /\ result = NoCall
  /\ cart = <<>>
  /\ showPayment = FALSE
  /\ completedSale = <<>>
  /\ modal = NoModal
  /\ timers = <<>>
  /\ dashboard = NoDashboard

(***************************************************************************)
(* Spec: the catalog and the sale service called with arbitrary item       *)
(* lists (any barcode, repeated barcodes, more than the stock).  Every     *)
(* line costs 5 a unit and 20 is tendered, so payment never fails here.    *)
(***************************************************************************)
NameOf(barcode) ==
  IF barcode = "1234567890" THEN "Laptop Computer" ELSE "Wireless Mouse"

NewProducts ==
  { [INITIAL_PRODUCTS[i] EXCEPT !.stock = st] :
      i \in 1..Len(INITIAL_PRODUCTS), st \in {-1, 0, MaxStock} }

StockUpdates == { [x \in {"stock"} |-> st] : st \in {-1, 1} }

Line(b, pr, q, t) ==
  [barcode |-> b, name |-> NameOf(b), price |-> pr, quantity |-> q, total |-> t]

SaleLines ==
  { Line("1234567890", 5, 2, 10), Line("2345678901", 5, 1, 5) }

ListsOf(lines) ==
  {<<>>} \cup { <<l>> : l \in lines } \cup { <<l, m>> : l \in lines, m \in lines }

SaleItemLists == ListsOf(SaleLines)

AddProduct == \E p \in NewProducts : CallAdd(p)

UpdateProduct == \E b \in Barcodes, u \in StockUpdates : CallUpdate(b, u)

DeleteProduct == \E b \in Barcodes : CallDelete(b)

RestockProduct == \E b \in Barcodes, q \in {0, 1} : CallRestock(b, q, "admin", MaxLogs)

ProcessSale ==
  \E items \in SaleItemLists : CallProcessSale(items, "cash", 20, "A1B", MaxSales)

Next ==
  \/ AddProduct
  \/ UpdateProduct
  \/ DeleteProduct
  \/ RestockProduct
  \/ ProcessSale

Spec == Init /\ [][Next]_vars

(***************************************************************************)
(* SpecPay: the sale service called with lines of total 20 (two units at   *)
(* 10) and 5 (one unit at 5) and with any of three amounts tendered, at    *)
(* every stock level.                                                      *)
(***************************************************************************)
PayLines ==
  { Line(b, 10, 2, 20) : b \in Barcodes } \cup { Line(b, 5, 1, 5) : b \in Barcodes }

PayItemLists == ListsOf(PayLines)

AmountsPaid == {-1, 20, 30}

SetStock ==
  \E b \in Barcodes, st \in {0, MaxStock} : CallUpdate(b, [x \in {"stock"} |-> st])

PaySale ==
  \E items \in PayItemLists, paid \in AmountsPaid :
     CallProcessSale(items, "cash", paid, "A1B", MaxSales)

NextPay ==
  \/ SetStock
  \/ PaySale

SpecPay == Init /\ [][NextPay]_vars

(***************************************************************************)
(* SpecMoves: stock movements only, sequences of restock and processSale    *)
(* calls.                                                                  *)
(***************************************************************************)
MoveIn == \E b \in Barcodes, q \in {0, 1} : CallRestock(b, q, "admin", MaxLedger)

MoveOut ==
  \E items \in SaleItemLists : CallProcessSale(items, "cash", 20, "A1B", MaxLedger)

NextMoves ==
  \/ MoveIn
  \/ MoveOut

SpecMoves == Init /\ [][NextMoves]_vars

(***************************************************************************)
(* SpecTransfer: the stock transfer service, called with any status in     *)
(* the request and any transfer id, while time passes.                     *)
(***************************************************************************)
TransferRequests ==
  { [fromStoreId |-> "store-001", toStoreId |-> "store-002",
     fromStoreName |-> "Main Store", toStoreName |-> "Branch",
     barcode |-> "1234567890", productName |-> "Laptop Computer",
     quantity |-> 1, status |-> st, requestedBy |-> "Admin"] : st \in Statuses }

TransferIds == { <<"transfer", t>> : t \in 0..MaxClock }

CreateTransfer == \E tr \in TransferRequests : CallCreate(tr)

CompleteTransfer == \E id \in TransferIds : CallComplete(id)

CancelTransfer == \E id \in TransferIds : CallCancel(id)

NextTransfer ==
  \/ CreateTransfer
  \/ CompleteTransfer
  \/ CancelTransfer
  \/ Tick

SpecTransfer == Init /\ [][NextTransfer]_vars

(***************************************************************************)
(* SpecLedger: every service that writes to storage, called while the      *)
(* ledger grows: sales of one line that succeed or fail (no item, too      *)
(* little paid, no stock, no product), the catalog operations, restock     *)
(* and the transfer operations.                                            *)
(***************************************************************************)
LedgerItemLists == {<<>>} \cup { <<l>> : l \in SaleLines }

LedgerSale ==
  \E items \in LedgerItemLists, paid \in {0, 20} :
     CallProcessSale(items, "cash", paid, "A1B", MaxLedger + 1)

LedgerAdd == CallAdd(INITIAL_PRODUCTS[1])

LedgerUpdate == CallUpdate("1234567890", [x \in {"stock"} |-> MaxStock])

LedgerDelete == CallDelete("1234567890")

LedgerRestock == CallRestock("2345678901", 1, "admin", MaxLogs)

LedgerCreate ==
  \E tr \in TransferRequests : tr.status = "pending" /\ CallCreate(tr)

LedgerComplete == CallComplete(<<"transfer", 0>>)

LedgerCancel == CallCancel(<<"transfer", 0>>)

NextLedger ==
  \/ LedgerSale
  \/ LedgerAdd
  \/ LedgerUpdate
  \/ LedgerDelete
  \/ LedgerRestock
  \/ LedgerCreate
  \/ LedgerComplete
  \/ LedgerCancel

SpecLedger == Init /\ [][NextLedger]_vars

(***************************************************************************)
(* SpecLogs: every service that writes to storage, around a stock log      *)
(* that grows to several entries: restocks of one product by two users,    *)
(* sales of that product, catalog operations on the other product and      *)
(* the transfer operations.                                                *)
(***************************************************************************)
LogRestock ==
  \E by \in {"admin", "alice"} : CallRestock("2345678901", 1, by, MaxLedger)

LogSale ==
  CallProcessSale(<<Line("2345678901", 5, 1, 5)>>, "cash", 20, "A1B", MaxSales)

NextLogs ==
  \/ LogRestock
  \/ LogSale
  \/ LedgerAdd
  \/ LedgerUpdate
  \/ LedgerDelete
  \/ LedgerCreate
  \/ LedgerComplete
  \/ LedgerCancel

SpecLogs == Init /\ [][NextLogs]_vars

(***************************************************************************)
(* SpecRestock: the back office restocks any barcode (registered or not)   *)
(* with any quantity (negative, zero, positive) under two user names,      *)
(* writes stock off, and removes and registers products.                   *)
(***************************************************************************)
RestockCodes == Barcodes \cup {"0000000000"}

Quantities == {-1, 0, 1, 2}

Performers == {"admin", "alice"}

StockIn ==
  \E b \in RestockCodes, q \in Quantities, by \in Performers :
     CallRestock(b, q, by, MaxLedger)

WriteOff == \E b \in Barcodes : CallUpdate(b, [x \in {"stock"} |-> 0])

Unlist == \E b \in Barcodes : CallDelete(b)

Relist == \E i \in 1..Len(INITIAL_PRODUCTS) : CallAdd(INITIAL_PRODUCTS[i])

NextRestock ==
  \/ StockIn
  \/ WriteOff
  \/ Unlist
  \/ Relist

SpecRestock == Init /\ [][NextRestock]_vars

(***************************************************************************)
(* The cashier view.  A handler closes over the state of the render it     *)
(* was created in; React renders again after every event, so a handler     *)
(* run by an event reads the current state, while the completion that      *)
(* PaymentModal.handleSubmit schedules keeps the cart of the render in     *)
(* which the payment was submitted.  CashierView.isProcessing is set and   *)
(* cleared within handlePaymentComplete, which never suspends, so no       *)
(* render sees it set.                                                     *)
(***************************************************************************)
RECURSIVE FindItemFrom(_, _, _)
FindItemFrom(c, b, i) ==
  IF i > Len(c) THEN 0
  ELSE IF c[i].product.barcode = b THEN i
  ELSE FindItemFrom(c, b, i + 1)

\* cart.find((item) => item.product.barcode === barcode); 0 for undefined.
FindItem(c, b) == FindItemFrom(c, b, 1)

RECURSIVE cartTotal(_)
cartTotal(c) ==
  IF c = <<>> THEN 0
  ELSE Head(c).product.price * Head(c).quantity + cartTotal(Tail(c))

\* handlePaymentComplete: cart items to sale items.
saleItems(c) ==
  [i \in 1..Len(c) |->
     [barcode |-> c[i].product.barcode,
      name |-> c[i].product.name,
      price |-> c[i].product.price,
      quantity |-> c[i].quantity,
      total |-> c[i].product.price * c[i].quantity]]

isValidPayment == modal.amountPaid >= cartTotal(cart)

handleScan_NewFirst(barcode) ==
  LET index == findIndex(products, barcode)
      existing == FindItem(cart, barcode)
  IN
  /\ ~ showPayment
  /\ cart' =
       IF index = 0 THEN cart
       ELSE IF existing # 0
         THEN IF cart[existing].quantity >= products[index].stock
                THEN cart
                ELSE [cart EXCEPT ![existing].quantity = @ + 1]
       ELSE IF products[index].stock = 0 THEN cart
       ELSE <<[product |-> products[index], quantity |-> 1]>> \o cart
  /\ UNCHANGED <<storage, clock, result, dashboard, showPayment, completedSale, modal, timers>>

handleScan_PastLimit(barcode) ==
  LET index == findIndex(products, barcode)
      existing == FindItem(cart, barcode)
  IN
  /\ ~ showPayment
  /\ cart' =
       IF index = 0 THEN cart
       ELSE IF existing # 0
         THEN IF cart[existing].quantity > products[index].stock
                THEN cart
                ELSE [cart EXCEPT ![existing].quantity = @ + 1]
       ELSE IF products[index].stock = 0 THEN cart
       ELSE Append(cart, [product |-> products[index], quantity |-> 1])
  /\ UNCHANGED <<storage, clock, result, dashboard, showPayment, completedSale, modal, timers>>

handleScan(barcode) ==
  LET index == findIndex(products, barcode)
      existing == FindItem(cart, barcode)
  IN
  /\ ~ showPayment
  /\ cart' =
       IF index = 0 THEN cart
       ELSE IF existing # 0
         THEN IF cart[existing].quantity >= products[index].stock
                THEN cart
                ELSE [i \in 1..Len(cart) |->
                        IF cart[i].product.barcode = barcode
                          THEN [cart[i] EXCEPT !.quantity = @ + 1]
                          ELSE cart[i]]
       ELSE IF products[index].stock = 0 THEN cart
       ELSE Append(cart, [product |-> products[index], quantity |-> 1])
  /\ UNCHANGED <<storage, clock, result, dashboard, showPayment, completedSale, modal, timers>>

handleProceedToPayment ==
  /\ ~ showPayment
  /\ completedSale = <<>>
  /\ cart # <<>>
  /\ showPayment' = TRUE
  /\ modal' = NoModal
  /\ UNCHANGED <<storage, clock, result, dashboard, cart, completedSale, timers>>

handleAmountChange(value) ==
  /\ showPayment
  /\ ~ modal.isProcessing
  /\ modal' = [modal EXCEPT !.amountPaid = value]
  /\ UNCHANGED <<storage, clock, result, dashboard, cart, showPayment, completedSale, timers>>

\* PaymentModal.handleSubmit up to its await: the completion is scheduled
\* with the onComplete of this render.
handleSubmit ==
  /\ showPayment
  /\ ~ modal.isProcessing
  /\ isValidPayment
  /\ Len(timers) < MaxTimers
  /\ modal' = [modal EXCEPT !.isProcessing = TRUE]
  /\ timers' = Append(timers, [cart |-> cart,
                               paymentMethod |-> modal.paymentMethod,
                               amountPaid |-> modal.amountPaid])
  /\ UNCHANGED <<storage, clock, result, dashboard, cart, showPayment, completedSale>>

\* The backdrop's onClick = onClose; it is not disabled while processing.
closePayment ==
  /\ showPayment
  /\ showPayment' = FALSE
  /\ modal' = NoModal
  /\ UNCHANGED <<storage, clock, result, dashboard, cart, completedSale, timers>>

handlePaymentComplete_KeepCart(random) ==
  /\ timers # <<>>
  /\ Len(sales) < MaxLedger
  /\ LET t == Head(timers)
         r == processSale(saleItems(t.cart), t.paymentMethod, t.amountPaid,
                          "John Doe", "store-001", "Main Store", random)
     IN /\ products' = r.products
        /\ sales' = r.sales
        /\ result' = r.ret
        /\ IF r.ret.success /\ r.sale # <<>>
             THEN /\ completedSale' = r.sale
                  /\ showPayment' = FALSE
                  /\ modal' = NoModal
                  /\ UNCHANGED cart
             ELSE UNCHANGED <<completedSale, cart, showPayment, modal>>
  /\ timers' = Tail(timers)
  /\ UNCHANGED <<stockLogs, transfers, clock, dashboard>>

\* The timeout of the oldest pending handleSubmit fires: it calls
\* onComplete = handlePaymentComplete with the cart it closed over.
handlePaymentComplete(random) ==
  /\ timers # <<>>
  /\ Len(sales) < MaxLedger
  /\ LET t == Head(timers)
         r == processSale(saleItems(t.cart), t.paymentMethod, t.amountPaid,
                          "John Doe", "store-001", "Main Store", random)
     IN /\ products' = r.products
        /\ sales' = r.sales
        /\ result' = r.ret
        /\ IF r.ret.success /\ r.sale # <<>>
             THEN /\ completedSale' = r.sale
                  /\ cart' = <<>>
                  /\ showPayment' = FALSE
                  /\ modal' = NoModal
             ELSE UNCHANGED <<completedSale, cart, showPayment, modal>>
  /\ timers' = Tail(timers)
  /\ UNCHANGED <<stockLogs, transfers, clock, dashboard>>

handleNewSale ==
  /\ completedSale # <<>>
  /\ completedSale' = <<>>
  /\ cart' = <<>>
  /\ UNCHANGED <<storage, clock, result, dashboard, showPayment, modal, timers>>

closeReceipt ==
  /\ completedSale # <<>>
  /\ completedSale' = <<>>
  /\ UNCHANGED <<storage, clock, result, dashboard, cart, showPayment, modal, timers>>

(***************************************************************************)
(* SpecCashier: the cashier scans, proceeds to payment, enters an amount   *)
(* (the Exact button, or one cent), submits, closes and reopens the        *)
(* payment dialog, while the submitted payments complete.                  *)
(***************************************************************************)
ScanCodes == Barcodes \cup {"0000000000"}

Scan == \E b \in ScanCodes : handleScan(b)

ProceedToPayment == handleProceedToPayment

EnterAmount == \E a \in {1, cartTotal(cart)} : handleAmountChange(a)

SubmitPayment == handleSubmit

ClosePayment == closePayment

PaymentComplete == handlePaymentComplete("A1B")

NewSale == handleNewSale

CloseReceipt == closeReceipt

NextCashier ==
  \/ Scan
  \/ ProceedToPayment
  \/ EnterAmount
  \/ SubmitPayment
  \/ ClosePayment
  \/ PaymentComplete
  \/ NewSale
  \/ CloseReceipt

SpecCashier == Init /\ [][NextCashier]_vars

(***************************************************************************)
(* Editing the cart.  The cart's buttons lie under the backdrop of the     *)
(* payment dialog and of the receipt, so they are reached only while       *)
(* neither is shown.                                                       *)
(***************************************************************************)
newItem_NoLimit(item, delta) ==
  LET newQuantity == item.quantity + delta IN
  IF newQuantity <= 0 THEN <<>>
  ELSE <<[item EXCEPT !.quantity = newQuantity]>>

\* The map callback of handleUpdateQuantity for the item of the barcode:
\* <<>> stands for null (filtered out), <<i>> for the item kept.
newItem(item, delta) ==
  LET newQuantity == item.quantity + delta IN
  IF newQuantity <= 0 THEN <<>>
  ELSE IF newQuantity > item.product.stock THEN <<item>>
  ELSE <<[item EXCEPT !.quantity = newQuantity]>>

\* prevCart.map(...).filter((item) => item !== null)
RECURSIVE mapFilter(_, _, _)
mapFilter(c, barcode, delta) ==
  IF c = <<>> THEN <<>>
  ELSE (IF Head(c).product.barcode = barcode
          THEN newItem(Head(c), delta)
          ELSE <<Head(c)>>)
       \o mapFilter(Tail(c), barcode, delta)

handleUpdateQuantity(barcode, delta) ==
  /\ ~ showPayment
  /\ completedSale = <<>>
  /\ cart' = mapFilter(cart, barcode, delta)
  /\ UNCHANGED <<storage, clock, result, dashboard, showPayment, completedSale, modal, timers>>

handleRemove(barcode) ==
  /\ ~ showPayment
  /\ completedSale = <<>>
  /\ cart' = SelectSeq(cart, LAMBDA item : item.product.barcode # barcode)
  /\ UNCHANGED <<storage, clock, result, dashboard, showPayment, completedSale, modal, timers>>

\* The confirm() is answered with OK; answered with Cancel nothing changes.
handleClearCart ==
  /\ ~ showPayment
  /\ completedSale = <<>>
  /\ cart # <<>>
  /\ cart' = <<>>
  /\ UNCHANGED <<storage, clock, result, dashboard, showPayment, completedSale, modal, timers>>

\* One call of handleScan made from the render that holds the cart
\* rendered: cart.find and the stock checks read rendered, and the updater
\* the call passes to setCart is applied to prevCart.
scanUpdater(rendered, prevCart, barcode) ==
  LET index == findIndex(products, barcode)
      existing == FindItem(rendered, barcode)
  IN IF index = 0 THEN prevCart
     ELSE IF existing # 0
       THEN IF rendered[existing].quantity >= products[index].stock
              THEN prevCart
              ELSE [i \in 1..Len(prevCart) |->
                      IF prevCart[i].product.barcode = barcode
                        THEN [prevCart[i] EXCEPT !.quantity = @ + 1]
                        ELSE prevCart[i]]
     ELSE IF products[index].stock = 0 THEN prevCart
     ELSE Append(prevCart, [product |-> products[index], quantity |-> 1])

\* Two scans handled by the handleScan of one render, before the view is
\* rendered again: both calls read the same cart, the updaters run in turn.
handleScans(first, second) ==
  /\ ~ showPayment
  /\ cart' = scanUpdater(cart, scanUpdater(cart, cart, first), second)
  /\ UNCHANGED <<storage, clock, result, dashboard, showPayment,
                 completedSale, modal, timers>>

(***************************************************************************)
(* SpecCart: the cashier scans and edits the cart while the back office    *)
(* changes the stock of the products (ProductService.update), so that the  *)
(* stock a cart item recorded when it was scanned and the current stock    *)
(* differ.                                                                 *)
(***************************************************************************)
Deltas == {-2, -1, 1, 2}

CartScan == \E b \in ScanCodes : handleScan(b)

CartUpdate == \E b \in ScanCodes, d \in Deltas : handleUpdateQuantity(b, d)

CartRemove == \E b \in ScanCodes : handleRemove(b)

CartClear == handleClearCart

BackOffice ==
  \E b \in Barcodes, st \in 0..MaxStock : CallUpdate(b, [x \in {"stock"} |-> st])

NextCart ==
  \/ CartScan
  \/ CartUpdate
  \/ CartRemove
  \/ CartClear
  \/ BackOffice

SpecCart == Init /\ [][NextCart]_vars

(***************************************************************************)
(* SpecBatch: SpecCart with scans that arrive in pairs and are handled     *)
(* before the view is rendered again.                                      *)
(***************************************************************************)
NextBatch ==
  \/ CartScan
  \/ CartUpdate
  \/ CartRemove
  \/ CartClear
  \/ BackOffice
  \/ \E b, c \in ScanCodes : handleScans(b, c)

SpecBatch == Init /\ [][NextBatch]_vars

(***************************************************************************)
(* SpecCheckout: the whole sale pipeline for one product.  The cashier     *)
(* builds and edits the cart, proceeds to payment, enters the exact        *)
(* amount, submits, closes and reopens the dialog, the submitted payments  *)
(* complete, the receipt is closed or a new sale started, while the back   *)
(* office changes the stock, so that a cart can be stale when its payment  *)
(* completes.                                                              *)
(***************************************************************************)
CheckoutScan == handleScan("2345678901")

CheckoutEdit == \E d \in {-1, 1} : handleUpdateQuantity("2345678901", d)

CheckoutRemove == handleRemove("2345678901")

StockChange ==
  \E st \in {0, MaxStock} : CallUpdate("2345678901", [x \in {"stock"} |-> st])

EnterExact == handleAmountChange(cartTotal(cart))

NextCheckout ==
  \/ CheckoutScan
  \/ CheckoutEdit
  \/ CheckoutRemove
  \/ CartClear
  \/ StockChange
  \/ ProceedToPayment
  \/ EnterExact
  \/ SubmitPayment
  \/ ClosePayment
  \/ PaymentComplete
  \/ NewSale
  \/ CloseReceipt

SpecCheckout == Init /\ [][NextCheckout]_vars

(***************************************************************************)
(* SpecStale: a cart that goes stale between the scan and the checkout.    *)
(* The cashier scans one product and pays for it while the back office     *)
(* changes the stock of the product, deletes it and registers it again;    *)
(* a payment submitted twice for one cart (the dialog closed and reopened  *)
(* while the first is processing) is the other sale that takes the stock.  *)
(***************************************************************************)
Discontinue == CallDelete("2345678901")

Reintroduce == CallAdd(INITIAL_PRODUCTS[2])

NextStale ==
  \/ CheckoutScan
  \/ StockChange
  \/ Discontinue
  \/ Reintroduce
  \/ ProceedToPayment
  \/ EnterExact
  \/ SubmitPayment
  \/ ClosePayment
  \/ PaymentComplete
  \/ NewSale

SpecStale == Init /\ [][NextStale]_vars

(***************************************************************************)
(* SpecReceipts: sales of one unit completed in quick succession, within   *)
(* one millisecond or across a tick of the clock, each with the random     *)
(* suffix Math.random() gives its receipt number.                          *)
(***************************************************************************)
Suffixes == {"A1B", "Z9K"}

ReceiptLines == { Line("1234567890", 5, 1, 5), Line("2345678901", 5, 1, 5) }

QuickSale ==
  \E l \in ReceiptLines, paid \in {5, 10}, random \in Suffixes :
     CallProcessSale(<<l>>, "cash", paid, random, MaxLedger)

NextReceipts ==
  \/ QuickSale
  \/ Tick

SpecReceipts == Init /\ [][NextReceipts]_vars

(***************************************************************************)
(* SpecHistory: sales made in the cashier view, and the back office        *)
(* renaming and repricing the product sold, changing its stock,            *)
(* restocking it, deleting it and registering it again afterwards.         *)
(***************************************************************************)
HistoryUpdates ==
  { [name |-> "Mouse Pro", price |-> 3499], [x \in {"stock"} |-> MaxStock] }

Reprice == \E u \in HistoryUpdates : CallUpdate("2345678901", u)

HistoryRestock == CallRestock("2345678901", 1, "admin", MaxLogs)

HistorySale == Len(sales) < MaxSales /\ handlePaymentComplete("A1B")

NextHistory ==
  \/ CheckoutScan
  \/ ProceedToPayment
  \/ EnterExact
  \/ SubmitPayment
  \/ HistorySale
  \/ NewSale
  \/ Reprice
  \/ HistoryRestock
  \/ Discontinue
  \/ Reintroduce

SpecHistory == Init /\ [][NextHistory]_vars

(***************************************************************************)
(* SpecCatalog: the product form of the back office with valid and         *)
(* invalid input: products added with a price or a stock that is           *)
(* negative, zero or positive, updates of the price, the stock or both,    *)
(* and updates and deletions of barcodes that are and are not registered.  *)
(***************************************************************************)
CatalogProducts ==
  { [INITIAL_PRODUCTS[i] EXCEPT !.price = pr, !.stock = st] :
      i \in 1..Len(INITIAL_PRODUCTS), pr \in {-1, 0, 5}, st \in {-1, 0, 1} }

CatalogUpdates ==
  { [x \in {"price"} |-> pr] : pr \in {-1, 0, 7} } \cup
  { [x \in {"stock"} |-> st] : st \in {-1, 0, 1} } \cup
  { [price |-> pr, stock |-> st] : pr \in {0, 7}, st \in {-1, 1} }

CatalogCodes == Barcodes \cup {"0000000000"}

CatalogAdd == \E p \in CatalogProducts : CallAdd(p)

CatalogUpdate == \E b \in CatalogCodes, u \in CatalogUpdates : CallUpdate(b, u)

CatalogDelete == \E b \in CatalogCodes : CallDelete(b)

NextCatalog ==
  \/ CatalogAdd
  \/ CatalogUpdate
  \/ CatalogDelete

SpecCatalog == Init /\ [][NextCatalog]_vars

(***************************************************************************)
(* AnalyticsDashboard.  The page keeps the sales it loaded and the date    *)
(* range chosen; its memos are computed again when what they depend on     *)
(* changes.  A quotient of two numbers is kept as the pair num / den, so   *)
(* that averages and percentages are exact; Math.random() is a number of   *)
(* thousandths in 0..999; a calendar day is the day of the timestamp in    *)
(* a time zone without offset.                                             *)
(***************************************************************************)
DayMs == 86400000

MinForecast == 7

MaxWindow == 8

daysMap == ("7d" :> 7) @@ ("30d" :> 30) @@ ("90d" :> 90) @@ ("1y" :> 365)

RECURSIVE Revenue(_)
Revenue(list) ==
  IF list = <<>> THEN 0 ELSE Head(list).total + Revenue(Tail(list))

\* Array.prototype.sort with (a, b) => b.timestamp - a.timestamp: stable,
\* newest first.
RECURSIVE SortNewestFirst(_)
SortNewestFirst(list) ==
  LET RECURSIVE InsertByTime(_, _)
      InsertByTime(sorted, sale) ==
        IF sorted = <<>> THEN <<sale>>
        ELSE IF Head(sorted).timestamp >= sale.timestamp
          THEN <<Head(sorted)>> \o InsertByTime(Tail(sorted), sale)
        ELSE <<sale>> \o sorted
  IN IF list = <<>> THEN <<>>
     ELSE InsertByTime(SortNewestFirst(SubSeq(list, 1, Len(list) - 1)),
                       list[Len(list)])

\* sale.timestamp >= cutoffDate = now - daysMap[dateRange] * DayMs, decided
\* on the age of the sale in whole days and the rest, because the product
\* for a year is beyond the integers of the model checker.
filteredSales(list, dateRange, now) ==
  SortNewestFirst(
    SelectSeq(list,
      LAMBDA sale :
        LET age == now - sale.timestamp
            days == daysMap[dateRange]
        IN \/ age <= 0
           \/ age \div DayMs < days
           \/ age \div DayMs = days /\ age % DayMs = 0))

\* new Date(timestamp).toDateString(), as the number of the day.
toDateString(timestamp) == timestamp \div DayMs

RECURSIVE SumValues(_, _)
SumValues(f, keys) ==
  IF keys = {} THEN 0
  ELSE LET k == CHOOSE x \in keys : TRUE IN f[k] + SumValues(f, keys \ {k})

\* average * (1 + (Math.random() * 0.2 - 0.1)) with Math.random() = r / 1000
\* is average * (4500 + r) / 5000.
forecast_PerSale(filtered, randoms) ==
  IF Len(filtered) < MinForecast THEN <<>>
  ELSE LET average == [num |-> Revenue(filtered), den |-> Len(filtered)] IN
       << [averageDaily |-> average,
           predictedWeekly |-> [num |-> average.num * 7, den |-> average.den],
           next7Days |-> [i \in 1..7 |->
                            [day |-> i,
                             predicted |->
                               [num |-> average.num * (4500 + randoms[i]), den |-> average.den * 5000]]]] >>

\* The forecast memo: <<>> is null.
forecast(filtered, randoms) ==
  IF Len(filtered) < MinForecast THEN <<>>
  ELSE LET dates == { toDateString(filtered[i].timestamp) :
                        i \in 1..Len(filtered) }
           dailySales ==
             [date \in dates |->
                Revenue(SelectSeq(filtered,
                          LAMBDA sale : toDateString(sale.timestamp) = date))]
           average == [num |-> SumValues(dailySales, dates), den |-> Cardinality(dates)]
       IN << [averageDaily |-> average,
              predictedWeekly |-> [num |-> average.num * 7, den |-> average.den],
              next7Days |-> [i \in 1..7 |->
                               [day |-> i,
                                predicted |->
                                  [num |-> average.num * (4500 + randoms[i]), den |-> average.den * 5000]]]] >>

\* The analytics memo: the figures of the filtered sales.
analytics(filtered) ==
  IF Len(filtered) = 0
    THEN [totalRevenue |-> 0, totalOrders |-> 0, growthRate |-> [num |-> 0, den |-> 1]]
  ELSE LET midPoint == Len(filtered) \div 2
           firstHalf == SubSeq(filtered, midPoint + 1, Len(filtered))
           secondHalf == SubSeq(filtered, 1, midPoint)
           firstHalfRevenue == Revenue(firstHalf)
           secondHalfRevenue == Revenue(secondHalf)
       IN [totalRevenue |-> Revenue(filtered),
           totalOrders |-> Len(filtered),
           growthRate |->
             IF firstHalfRevenue > 0
               THEN [num |-> (secondHalfRevenue - firstHalfRevenue) * 100, den |-> firstHalfRevenue]
               ELSE [num |-> 0, den |-> 1]]

getByStore(storeId) == SelectSeq(sales, LAMBDA sale : sale.storeId = storeId)

\* A render after sales or dateRange changed: both memos are computed
\* again, the forecast with seven new values of Math.random().
Render(loaded, dateRange, randoms) ==
  LET filtered == filteredSales(loaded, dateRange, clock) IN
  [sales |-> loaded, dateRange |-> dateRange, filteredSales |-> filtered,
   analytics |-> analytics(filtered),
   forecast |-> forecast(filtered, randoms)]

\* currentStoreId is <<>> when no store is selected.
loadData(currentStoreId, randoms) ==
  /\ dashboard' = Render(IF currentStoreId # <<>>
                           THEN getByStore(currentStoreId[1]) ELSE sales,
                         dashboard.dateRange, randoms)
  /\ UNCHANGED <<storage, clock, result, view>>

\* The select's onChange; setting the range it has renders nothing.
setDateRange(dateRange, randoms) ==
  /\ dateRange # dashboard.dateRange
  /\ dashboard' = Render(dashboard.sales, dateRange, randoms)
  /\ UNCHANGED <<storage, clock, result, view>>

(***************************************************************************)
(* SpecAnalytics: the dashboard over a ledger of up to MaxWindow sales     *)
(* made on three days (8, 2 and 1 days before now), each day's sales of    *)
(* one amount; the page loads the sales of all stores, of the store that   *)
(* sold them or of another store, and the range is changed.                *)
(***************************************************************************)
Sold(t, items, paymentMethod, storeId) ==
  [id |-> <<"sale", t>>,
   receiptNumber |-> <<"RCP", toString36(t), "A1B">>,
   items |-> items,
   subtotal |-> SumTotals(items),
   tax |-> SumTotals(items) * taxRate,
   total |-> SumTotals(items) + SumTotals(items) * taxRate,
   paymentMethod |-> paymentMethod,
   amountPaid |-> SumTotals(items) + SumTotals(items) * taxRate,
   change |-> 0,
   cashierName |-> "John Doe",
   storeId |-> storeId,
   storeName |-> IF storeId = "store-001" THEN "Main Store" ELSE "Branch",
   timestamp |-> t]

\* DaySales(d, n, q): n sales of q units at 10 on day d, newest first.
AnalyticsLedgers ==
  LET DaySales(d, n, q) ==
        [i \in 1..n |->
           Sold(d * DayMs + (n - i), <<Line("1234567890", 10, q, 10 * q)>>,
                "cash", "store-001")]
  IN { DaySales(7, c[3], q[3]) \o DaySales(6, c[2], q[2])
         \o DaySales(0, c[1], q[1]) :
         c \in { x \in [1..3 -> 0..MaxWindow] : x[1] + x[2] + x[3] <= MaxWindow },
         q \in [1..3 -> {1, 3}] }

RandomRuns ==
  { [i \in 1..7 |-> r] : r \in {0, 999} } \cup
  { [i \in 1..7 |-> IF i % 2 = 0 THEN 250 ELSE 800] }

InitAnalytics ==
  /\ products = INITIAL_PRODUCTS
  /\ stockLogs = <<>>
  /\ sales \in AnalyticsLedgers
  /\ transfers = <<>>
  /\ clock = 8 * DayMs
  /\ result = NoCall
  /\ cart = <<>>
  /\ showPayment = FALSE
  /\ completedSale = <<>>
  /\ modal = NoModal
  /\ timers = <<>>
  /\ dashboard = NoDashboard

LoadSales ==
  \E store \in {<<>>, <<"store-001">>, <<"store-002">>}, randoms \in RandomRuns :
     loadData(store, randoms)

ChangeRange ==
  \E dateRange \in DOMAIN daysMap, randoms \in RandomRuns :
     setDateRange(dateRange, randoms)

NextAnalytics ==
  \/ LoadSales
  \/ ChangeRange

SpecAnalytics == InitAnalytics /\ [][NextAnalytics]_vars

(***************************************************************************)
(* SaleService.getDailyTotals.  A Date is its time in milliseconds; the    *)
(* optional storeId is <<>> when it is not given.                          *)
(***************************************************************************)
getByDateRange_OpenEnd(startDate, endDate, storeId) ==
  SelectSeq(IF storeId # <<>> THEN getByStore(storeId[1]) ELSE sales,
            LAMBDA sale : sale.timestamp >= startDate /\ sale.timestamp < endDate)

getByDateRange(startDate, endDate, storeId) ==
  SelectSeq(IF storeId # <<>> THEN getByStore(storeId[1]) ELSE sales,
            LAMBDA sale : sale.timestamp >= startDate /\ sale.timestamp <= endDate)

getDailyTotals(date, storeId) ==
  LET startOfDay == (date \div DayMs) * DayMs
      endOfDay == startOfDay + ((23 * 60 + 59) * 60 + 59) * 1000 + 999
      found == getByDateRange(startOfDay, endOfDay, storeId)
      Of(method) == SelectSeq(found, LAMBDA sale : sale.paymentMethod = method)
      RECURSIVE Items(_)
      Items(list) ==
        IF list = <<>> THEN 0
        ELSE LET items == Head(list).items IN
             SumValues([k \in 1..Len(items) |-> items[k].quantity],
                       1..Len(items))
             + Items(Tail(list))
  IN [totalSales |-> Len(found),
      totalRevenue |-> Revenue(found),
      totalItems |-> Items(found),
      byPaymentMethod |->
        [method \in {"cash", "mobile_money", "card"} |->
           [count |-> Len(Of(method)), amount |-> Revenue(Of(method))]]]

CallGetDailyTotals(date, storeId) ==
  /\ result' = getDailyTotals(date, storeId)
  /\ UNCHANGED <<storage, clock, view, dashboard>>

(***************************************************************************)
(* SpecTotals: daily totals asked for three days and for all stores or     *)
(* one of two, over ledgers of up to MaxLedger sales made at the last      *)
(* millisecond of a day, the first of the next, its last and the first of  *)
(* the day after, in either store, paid in cash or by card.                *)
(***************************************************************************)
TotalsLedgers ==
  LET Sale == { Sold(t, items, method, store) :
                  t \in {DayMs - 1, DayMs, 2 * DayMs - 1, 2 * DayMs},
                  items \in { <<Line("1234567890", 10, 1, 10)>>,
                              <<Line("1234567890", 10, 2, 20),
                                Line("2345678901", 5, 1, 5)>> },
                  method \in {"cash", "card"},
                  store \in {"store-001", "store-002"} }
  IN UNION { { l \in [1..n -> Sale] :
                 \A i \in 1..(n - 1) : l[i].timestamp >= l[i + 1].timestamp } :
             n \in 0..MaxLedger }

InitTotals ==
  /\ products = INITIAL_PRODUCTS
  /\ stockLogs = <<>>
  /\ sales \in TotalsLedgers
  /\ transfers = <<>>
  /\ clock = 3 * DayMs
  /\ result = NoCall
  /\ cart = <<>>
  /\ showPayment = FALSE
  /\ completedSale = <<>>
  /\ modal = NoModal
  /\ timers = <<>>
  /\ dashboard = NoDashboard

TotalsDates == {DayMs - 1, DayMs + 3600000, 2 * DayMs - 1, clock}

TotalsStores == {<<>>, <<"store-001">>, <<"store-002">>}

DailyTotals ==
  \E date \in TotalsDates, storeId \in TotalsStores :
     CallGetDailyTotals(date, storeId)

SpecTotals == InitTotals /\ [][DailyTotals]_vars

(***************************************************************************)
(* Vocabulary of the properties.                                           *)
(***************************************************************************)
InCatalog(ps, b) == \E i \in 1..Len(ps) : ps[i].barcode = b

StockOf(ps, b) == ps[findIndex(ps, b)].stock

\* A line fails its check: its barcode is not in the catalog, or the
\* product's stock is less than the line's quantity.
LineFails(ps, item) ==
  \/ ~ InCatalog(ps, item.barcode)
  \/ StockOf(ps, item.barcode) < item.quantity

SomeLineFails(ps, items) == \E i \in 1..Len(items) : LineFails(ps, items[i])

\* The units of barcode b on the lines of an item list.
RECURSIVE UnitsOf(_, _)
UnitsOf(items, b) ==
  IF items = <<>> THEN 0
  ELSE (IF Head(items).barcode = b THEN Head(items).quantity ELSE 0)
       + UnitsOf(Tail(items), b)

\* The errors processSale returns for a line that fails its check.
LineErrors ==
  { "Product " \o NameOf(b) \o " not found" : b \in Barcodes } \cup
  { "Insufficient stock for " \o NameOf(b) \o ". Available: " \o ToString(n) :
      b \in Barcodes, n \in (0 - 2 * MaxStock)..MaxStock }

\* The step is a successful processSale / restock: it leaves a new record.
SaleAdded == Len(sales') = Len(sales) + 1
LogAdded == Len(stockLogs') = Len(stockLogs) + 1

(***************************************************************************)
(* C1.  All-or-nothing checkout: whenever processSale is called with an    *)
(* item list of which at least one line fails its check (barcode not in    *)
(* the catalog, or stock below the line's quantity), the call returns      *)
(* success = false, and neither any product's stock nor the sale ledger    *)
(* changes.                                                                *)
(***************************************************************************)
C1_AllOrNothing ==
  [][\A items \in SaleItemLists :
       (CallProcessSale(items, "cash", 20, "A1B", MaxSales)
          /\ SomeLineFails(products, items))
       => (/\ result'.success = FALSE
           /\ products' = products
           /\ sales' = sales)]_vars

\* A sale was refused for a failing line while the other product could have
\* been sold, and the catalog and the ledger are as they were initially.
C1_Witness ==
  /\ result.success = FALSE
  /\ result.error \in LineErrors
  /\ \E i \in 1..Len(products) : products[i].stock >= 1
  /\ sales = <<>>

(***************************************************************************)
(* C2.  Every stored product has stock >= 0, in every state reachable by   *)
(* add, update, restock, delete and processSale calls with arbitrary       *)
(* arguments (item lists may repeat a barcode).                            *)
(***************************************************************************)
C2_StockNonNegative ==
  \A i \in 1..Len(products) : products[i].stock >= 0

(***************************************************************************)
(* C3.  Stock conservation: every successful restock adds exactly the      *)
(* restocked quantity to its product's stock and every successful          *)
(* processSale subtracts exactly the units sold of each product (so over   *)
(* a sequence of such calls the final stock is the initial stock plus the  *)
(* restocked quantities minus the units sold), and the stock is            *)
(* non-negative after each such step.                                      *)
(***************************************************************************)
C3_Conserved ==
  /\ SaleAdded =>
       \A b \in Barcodes :
         /\ InCatalog(products', b) <=> InCatalog(products, b)
         /\ InCatalog(products, b) =>
              StockOf(products', b)
                = StockOf(products, b) - UnitsOf(sales'[1].items, b)
  /\ LogAdded =>
       \A b \in Barcodes :
         /\ InCatalog(products', b) <=> InCatalog(products, b)
         /\ InCatalog(products, b) =>
              StockOf(products', b)
                = StockOf(products, b)
                  + (IF stockLogs'[1].barcode = b
                       THEN stockLogs'[1].quantityAdded ELSE 0)

C3_NonNegativeAfter ==
  (SaleAdded \/ LogAdded) =>
     \A i \in 1..Len(products') : products'[i].stock >= 0

\* The conservation half on its own: it holds of the code.
C3_ConservationOnly == [][C3_Conserved]_vars

C3_StockConservation == [][C3_Conserved /\ C3_NonNegativeAfter]_vars

(***************************************************************************)
(* C4.  Payment invariant: every SaleRecord in the ledger has              *)
(* amountPaid >= total and change = amountPaid - total.                    *)
(***************************************************************************)
C4_PaymentInvariant ==
  \A i \in 1..Len(sales) :
    /\ sales[i].amountPaid >= sales[i].total
    /\ sales[i].change = sales[i].amountPaid - sales[i].total

\* A sale paid with more than its total is in the ledger.
C4_Witness ==
  \E i \in 1..Len(sales) : sales[i].amountPaid > sales[i].total

(***************************************************************************)
(* C5.  processSale called with amountPaid < total returns success =       *)
(* false with the insufficient-payment error, changes no product's stock   *)
(* and adds no SaleRecord, whatever the stock levels are.                  *)
(***************************************************************************)
PaymentRefused ==
  /\ result' = Fail("Insufficient payment amount")
  /\ products' = products
  /\ sales' = sales

C5_Original ==
  [][\A items \in PayItemLists, paid \in AmountsPaid :
       (CallProcessSale(items, "cash", paid, "A1B", MaxSales)
          /\ paid < SumTotals(items))
       => PaymentRefused]_vars

\* C5 as amended: the same for a non-empty item list (an empty list is
\* refused first, with the empty-cart error).
C5_InsufficientPayment ==
  [][\A items \in PayItemLists, paid \in AmountsPaid :
       (CallProcessSale(items, "cash", paid, "A1B", MaxSales)
          /\ Len(items) > 0
          /\ paid < SumTotals(items))
       => PaymentRefused]_vars

\* A payment was refused while a product was out of stock and another was
\* in stock.
C5_Witness ==
  /\ result = Fail("Insufficient payment amount")
  /\ \E i \in 1..Len(products) : products[i].stock = 0
  /\ \E i \in 1..Len(products) : products[i].stock > 0

(***************************************************************************)
(* C6.  Every SaleRecord has subtotal = the sum of its lines' totals,      *)
(* tax = subtotal * taxRate = 0 and total = subtotal + tax; a record       *)
(* with lines of total 20 and 5 paid with 30 has subtotal 25, tax 0,       *)
(* total 25 and change 5.                                                  *)
(***************************************************************************)
RECURSIVE TotalsUpTo(_, _)
TotalsUpTo(items, n) ==
  IF n = 0 THEN 0 ELSE TotalsUpTo(items, n - 1) + items[n].total

IsScenario2(sale) ==
  /\ Len(sale.items) = 2
  /\ sale.items[1].total = 20
  /\ sale.items[2].total = 5
  /\ sale.amountPaid = 30

C6_Totals ==
  \A i \in 1..Len(sales) :
    /\ sales[i].subtotal = TotalsUpTo(sales[i].items, Len(sales[i].items))
    /\ sales[i].tax = sales[i].subtotal * 0
    /\ sales[i].total = sales[i].subtotal + sales[i].tax
    /\ IsScenario2(sales[i]) =>
         /\ sales[i].subtotal = 25
         /\ sales[i].tax = 0
         /\ sales[i].total = 25
         /\ sales[i].change = 5

\* The sale of the example was accepted and is in the ledger.
C6_Witness ==
  /\ result.success
  /\ \E i \in 1..Len(sales) : IsScenario2(sales[i])

(***************************************************************************)
(* C9.  Transfer state machine: complete and cancel called on a transfer   *)
(* that is not pending return success = false and leave it unchanged;      *)
(* called on a pending transfer they succeed and make it completed,        *)
(* respectively cancelled; and a transfer that is completed or cancelled   *)
(* never changes again.  So of any calls on one pending transfer exactly   *)
(* one, the first, succeeds.                                               *)
(***************************************************************************)
IsPending(id) ==
  FindTransfer(id) # 0 /\ transfers[FindTransfer(id)].status = "pending"

IsSettled(id) ==
  FindTransfer(id) # 0 /\ transfers[FindTransfer(id)].status # "pending"

C9_TransferStateMachine ==
  [][/\ \A id \in TransferIds :
          ((CallComplete(id) \/ CallCancel(id)) /\ IsSettled(id))
          => (result'.success = FALSE /\ transfers' = transfers)
     /\ \A id \in TransferIds :
          (CallComplete(id) /\ IsPending(id))
          => (/\ result'.success
              /\ transfers'[FindTransfer(id)].status = "completed")
     /\ \A id \in TransferIds :
          (CallCancel(id) /\ IsPending(id))
          => (/\ result'.success
              /\ transfers'[FindTransfer(id)].status = "cancelled")
     /\ \A i \in 1..Len(transfers) :
          transfers[i].status # "pending"
          => (i <= Len(transfers') /\ transfers'[i] = transfers[i])]_vars

\* A transfer created pending was completed, and a later cancel of it was
\* refused.
C9_Witness ==
  /\ result = Fail("Can only cancel pending transfers")
  /\ \E i \in 1..Len(transfers) :
       transfers[i].status = "completed" /\ transfers[i].completedAt # <<>>

(***************************************************************************)
(* C10.  StockTransferService.create always succeeds and the transfer it   *)
(* stores has status 'pending', for every argument passed to create.       *)
(***************************************************************************)
C10_CreatePending ==
  [][\A tr \in TransferRequests :
       CallCreate(tr)
       => (/\ result'.success
           /\ Len(transfers') = Len(transfers) + 1
           /\ transfers'[Len(transfers')].status = "pending")]_vars

\* The part of C10 the code keeps: create always succeeds and stores the
\* request, with the status the caller gave.
C10_CreateStores ==
  [][\A tr \in TransferRequests :
       CallCreate(tr)
       => (/\ result'.success
           /\ Len(transfers') = Len(transfers) + 1
           /\ transfers'[Len(transfers')].status = tr.status)]_vars

(***************************************************************************)
(* C7.  A SaleRecord is created exactly once per completed checkout:    *)
(* every step that appends a record to the ledger (and deducts stock)      *)
(* completes the checkout of the cart the view holds, and empties it, so   *)
(* that over every interleaving of proceed, submit, completion, close and  *)
(* reopen no cart is recorded or deducted a second time after it was       *)
(* sold.                                                                   *)
(***************************************************************************)
C7_OncePerCheckout ==
  [][SaleAdded =>
       /\ cart # <<>>
       /\ cart' = <<>>]_vars

(***************************************************************************)
(* C8.  The sale ledger is append-only and newest-first: a processSale     *)
(* call that succeeds puts exactly one new record, the one of that sale,   *)
(* at the head of the ledger and keeps the records stored before, each     *)
(* unmodified and in the same order, behind it; a processSale call that    *)
(* fails, and every call of add, update, delete, restock and of the        *)
(* transfer operations, leaves the ledger exactly as it was.               *)
(***************************************************************************)
Prepended(items, paid) ==
  /\ Len(sales') = Len(sales) + 1
  /\ sales'[1].items = items
  /\ sales'[1].amountPaid = paid
  /\ \A i \in 1..Len(sales) : sales'[i + 1] = sales[i]

C8_LedgerAppendOnly ==
  [][/\ \A items \in LedgerItemLists, paid \in {0, 20} :
          CallProcessSale(items, "cash", paid, "A1B", MaxLedger + 1)
          => IF result'.success THEN Prepended(items, paid) ELSE sales' = sales
     /\ (LedgerAdd \/ LedgerUpdate \/ LedgerDelete \/ LedgerRestock
           \/ LedgerCreate \/ LedgerComplete \/ LedgerCancel)
          => sales' = sales]_vars

\* The ledger holds three sales, not all of the same items, and calls that
\* came after them (a restock, a settled transfer, a refused call) left them.
C8_Witness ==
  /\ Len(sales) = MaxLedger + 1
  /\ sales[1].items # sales[Len(sales)].items
  /\ stockLogs # <<>>
  /\ \E i \in 1..Len(transfers) : transfers[i].status # "pending"
  /\ result.success = FALSE

(***************************************************************************)
(* Vocabulary of the cart properties.                                      *)
(***************************************************************************)
\* The quantity the cart holds of a barcode; 0 when it has no item for it.
CartQty(c, b) == IF FindItem(c, b) = 0 THEN 0 ELSE c[FindItem(c, b)].quantity

\* Every item of c other than the one of barcode b is in d, at its place.
OthersKept(c, d, b) ==
  \A i \in 1..Len(c) :
    c[i].product.barcode # b => (i <= Len(d) /\ d[i] = c[i])

\* The three ways a scan fails.
NotRegistered(b) == ~ InCatalog(products, b)

StockLimitExceeded(b) ==
  /\ InCatalog(products, b)
  /\ FindItem(cart, b) # 0
  /\ cart[FindItem(cart, b)].quantity >= StockOf(products, b)

OutOfStock(b) ==
  /\ InCatalog(products, b)
  /\ FindItem(cart, b) = 0
  /\ StockOf(products, b) = 0

ScanFails(b) == NotRegistered(b) \/ StockLimitExceeded(b) \/ OutOfStock(b)

(***************************************************************************)
(* C11.  A successful scan of a registered barcode either raises the       *)
(* quantity of the cart item of that barcode by exactly 1, or, when the    *)
(* cart has no item for it, appends a new item of quantity 1 at the end;   *)
(* every other item is unchanged.  With stock s, a scan takes the cart     *)
(* quantity q <= s to min(q + 1, s), so n scans from an empty cart give    *)
(* min(n, s): at q = s the scan is rejected and the quantity stays s.      *)
(***************************************************************************)
C11_ScanAdds ==
  [][\A b \in ScanCodes :
       /\ (handleScan(b) /\ ~ ScanFails(b))
          => LET k == FindItem(cart, b)
                 s == StockOf(products, b)
             IN /\ IF k # 0
                     THEN /\ Len(cart') = Len(cart)
                          /\ cart'[k] = [product |-> cart[k].product,
                                         quantity |-> cart[k].quantity + 1]
                     ELSE /\ Len(cart') = Len(cart) + 1
                          /\ cart'[Len(cart')] =
                               [product |-> products[findIndex(products, b)],
                                quantity |-> 1]
                /\ OthersKept(cart, cart', b)
       /\ (handleScan(b) /\ InCatalog(products, b)
             /\ CartQty(cart, b) <= StockOf(products, b))
          => CartQty(cart', b) =
               IF CartQty(cart, b) + 1 <= StockOf(products, b)
                 THEN CartQty(cart, b) + 1
                 ELSE StockOf(products, b)]_vars

\* Two products are in the cart, the first scanned holds as many units as
\* its stock (two scans of a stock of MaxStock), the second is behind it.
C11_Witness ==
  /\ Len(cart) = 2
  /\ cart[1].quantity = MaxStock
  /\ cart[1].quantity = StockOf(products, cart[1].product.barcode)
  /\ cart[2].quantity = 1

(***************************************************************************)
(* C12.  A failing scan leaves the cart unchanged: a scan of a barcode     *)
(* that is not in the catalog, of a barcode whose cart quantity is at or   *)
(* above the product's current stock, or of a barcode with current stock   *)
(* 0 and no cart item, changes neither the cart nor any persisted          *)
(* collection.                                                             *)
(***************************************************************************)
C12_FailingScan ==
  [][\A b \in ScanCodes :
       (handleScan(b) /\ ScanFails(b))
       => (/\ cart' = cart
           /\ products' = products
           /\ stockLogs' = stockLogs
           /\ sales' = sales
           /\ transfers' = transfers)]_vars

\* A state in which each of the three failures can happen: one item is
\* above the current stock of its product (the stock was lowered after the
\* scans), the other product is out of stock and not in the cart.
C12_Witness ==
  /\ Len(cart) = 1
  /\ StockLimitExceeded(cart[1].product.barcode)
  /\ cart[1].quantity > StockOf(products, cart[1].product.barcode)
  /\ \E b \in Barcodes : OutOfStock(b)
  /\ NotRegistered("0000000000")

(***************************************************************************)
(* C13.  updateQuantity(barcode, delta) computes newQuantity = current +   *)
(* delta for the cart item of the barcode: if newQuantity <= 0 the item    *)
(* is removed; if newQuantity > Product.stock the item is left unchanged;  *)
(* otherwise its quantity becomes newQuantity.  Items of other barcodes    *)
(* are never changed.                                                      *)
(***************************************************************************)
Without(c, k) == [i \in 1..(Len(c) - 1) |-> IF i < k THEN c[i] ELSE c[i + 1]]

UpdateRule(b, d, limit) ==
  LET k == FindItem(cart, b) IN
  IF k = 0 THEN cart' = cart
  ELSE LET newQuantity == cart[k].quantity + d IN
       IF newQuantity <= 0 THEN cart' = Without(cart, k)
       ELSE IF newQuantity > limit THEN cart' = cart
       ELSE cart' = [cart EXCEPT ![k].quantity = newQuantity]

\* Product.stock is the stock of the product the cart item holds
\* (item.product.stock), recorded when the barcode was first scanned.
C13_UpdateQuantity ==
  [][\A b \in ScanCodes, d \in Deltas :
       handleUpdateQuantity(b, d)
       => UpdateRule(b, d, IF FindItem(cart, b) = 0 THEN 0
                           ELSE cart[FindItem(cart, b)].product.stock)]_vars

\* The second of two items holds as many units as the stock recorded in
\* it, more than one, and the first was left as it is: the quantity was
\* raised by an update to the limit, where the next increase is refused.
C13_Witness ==
  /\ Len(cart) = 2
  /\ cart[2].quantity = cart[2].product.stock
  /\ cart[2].quantity > 1
  /\ cart[1].quantity = 1

(***************************************************************************)
(* C14.  Cart versus stock: no scan, updateQuantity, remove or clear       *)
(* raises the quantity the cart holds of a barcode above the stock the     *)
(* product had when it was scanned (the current stock at a scan, the       *)
(* stock recorded in the item at an update); and a checkout whose cart     *)
(* holds more of a product than its current stock is rejected by           *)
(* processSale: success = false, no stock and no ledger change.            *)
(***************************************************************************)
\* The submitted cart holds more units of a product than are in stock now.
StaleCheckout ==
  /\ timers # <<>>
  /\ \E i \in 1..Len(Head(timers).cart) :
       LET item == Head(timers).cart[i] IN
       /\ InCatalog(products, item.product.barcode)
       /\ item.quantity > StockOf(products, item.product.barcode)

C14_CartWithinStock ==
  [][/\ \A b \in Barcodes :
          CartQty(cart', b) > CartQty(cart, b)
          => \/ /\ InCatalog(products, b)
                /\ CartQty(cart', b) <= StockOf(products, b)
             \/ /\ FindItem(cart, b) # 0
                /\ CartQty(cart', b) <= cart[FindItem(cart, b)].product.stock
     /\ (handlePaymentComplete("A1B") /\ StaleCheckout)
          => (/\ result'.success = FALSE
              /\ products' = products
              /\ sales' = sales)]_vars

\* A checkout of a stale cart was refused: the cart still holds more units
\* than the product has in stock, and nothing was sold.
C14_Witness ==
  /\ result.success = FALSE
  /\ result.error \in LineErrors
  /\ cart # <<>>
  /\ cart[1].quantity > StockOf(products, cart[1].product.barcode)
  /\ sales = <<>>

(***************************************************************************)
(* C15.  A successful restock(barcode, quantity, performedBy) sets the     *)
(* product's stock to its previous stock plus quantity and puts one        *)
(* StockLog at index 0 of the stock log, with previousStock the stock      *)
(* before the call, newStock = previousStock + quantityAdded,              *)
(* quantityAdded = quantity, and the given barcode and performedBy; the    *)
(* earlier log entries and all other products are unchanged.               *)
(***************************************************************************)
C15_Restock ==
  [][\A b \in RestockCodes, q \in Quantities, by \in Performers :
       (CallRestock(b, q, by, MaxLedger) /\ result'.success)
       => LET k == findIndex(products, b) IN
          /\ k # 0
          /\ products' = [products EXCEPT ![k].stock = products[k].stock + q]
          /\ Len(stockLogs') = Len(stockLogs) + 1
          /\ stockLogs'[1].previousStock = products[k].stock
          /\ stockLogs'[1].newStock
               = stockLogs'[1].previousStock + stockLogs'[1].quantityAdded
          /\ stockLogs'[1].quantityAdded = q
          /\ stockLogs'[1].barcode = b
          /\ stockLogs'[1].performedBy = by
          /\ \A i \in 1..Len(stockLogs) : stockLogs'[i + 1] = stockLogs[i]]_vars

\* Two restocks are logged, newest first: alice's restock of a stock of 0
\* by 2 is at the head, an earlier restock by admin behind it.
C15_Witness ==
  /\ Len(stockLogs) = 2
  /\ stockLogs[1].performedBy = "alice"
  /\ stockLogs[1].previousStock = 0
  /\ stockLogs[1].quantityAdded = 2
  /\ stockLogs[1].newStock = 2
  /\ stockLogs[2].performedBy = "admin"
  /\ StockOf(products, stockLogs[1].barcode) = 2

(***************************************************************************)
(* C16.  restock fails (success = false) when quantity <= 0 and when the   *)
(* barcode is not in the catalog, and in both cases neither the catalog    *)
(* nor the stock log is changed.                                           *)
(***************************************************************************)
C16_RestockFails ==
  [][\A b \in RestockCodes, q \in Quantities, by \in Performers :
       (CallRestock(b, q, by, MaxLedger)
          /\ (q <= 0 \/ ~ InCatalog(products, b)))
       => (/\ result'.success = FALSE
           /\ products' = products
           /\ stockLogs' = stockLogs)]_vars

\* A restock with a quantity that is not positive was refused after an
\* earlier restock had been logged and a product removed.
C16_Witness ==
  /\ result = Fail("Quantity must be positive")
  /\ stockLogs # <<>>
  /\ Len(products) < Len(INITIAL_PRODUCTS)

DistinctBarcodes(ps) ==
  \A i, j \in 1..Len(ps) : ps[i].barcode = ps[j].barcode => i = j

C18_BarcodeUnique ==
  /\ [] DistinctBarcodes(products)
  /\ [][\A p \in NewProducts :
          (CallAdd(p) /\ InCatalog(products, p.barcode))
          => (result'.success = FALSE /\ products' = products)]_vars

\* A product that had been deleted was added again behind the other one,
\* and a second add of it was refused.
C18_Witness ==
  /\ result = Fail("Barcode already exists")
  /\ Len(products) = 2
  /\ products[1].barcode = INITIAL_PRODUCTS[2].barcode
  /\ products[2].barcode = INITIAL_PRODUCTS[1].barcode

(***************************************************************************)
(* C19.  Sale pipeline state machine: the pipeline reaches Completed (a    *)
(* completed sale is set) only by a processSale call that returned         *)
(* success; whenever processSale fails during checkout, no stock and no    *)
(* ledger entry has changed, the cart keeps its contents, and the          *)
(* pipeline is back in Building: the payment dialog is closed, so that     *)
(* the cart can again be edited and checked out.                           *)
(***************************************************************************)
CheckoutFails == handlePaymentComplete("A1B") /\ ~ result'.success

C19_CompletedOnlyBySale ==
  (completedSale' # completedSale /\ completedSale' # <<>>)
  => (/\ SaleAdded
      /\ result'.success
      /\ completedSale' = <<sales'[1]>>)

C19_NoPartialMutation ==
  CheckoutFails
  => (/\ cart' = cart
      /\ products' = products
      /\ sales' = sales)

C19_BackToBuilding == CheckoutFails => ~ showPayment'

\* The part of C19 that holds of the code.
C19_WithoutReturn == [][C19_CompletedOnlyBySale /\ C19_NoPartialMutation]_vars

C19_Pipeline ==
  [][/\ C19_CompletedOnlyBySale
     /\ C19_NoPartialMutation
     /\ C19_BackToBuilding]_vars

(***************************************************************************)
(* C20.  After a successful checkout the cart is empty, the payment        *)
(* dialog is closed and the receipt of the sale is shown; starting a new   *)
(* sale leaves the cart empty, closing the receipt leaves it as it is,     *)
(* and an item enters the cart only by a scan, with quantity 1 and the     *)
(* product as stored now.  So no item of the completed sale is in the      *)
(* cart when the next Building cycle begins.                               *)
(***************************************************************************)
C20_FreshCart ==
  [][/\ SaleAdded =>
          /\ cart' = <<>>
          /\ ~ showPayment'
          /\ completedSale' = <<sales'[1]>>
     /\ handleNewSale => cart' = <<>>
     /\ closeReceipt => cart' = cart
     /\ Len(cart') > Len(cart) =>
          \E i \in 1..Len(products) :
            cart' = Append(cart, [product |-> products[i], quantity |-> 1])]_vars

\* A sale is in the ledger, its receipt was dismissed, no payment is
\* pending, and the next cart holds an item scanned after the sale: the
\* stock it recorded is the stock the sale left.
C20_Witness ==
  /\ sales # <<>>
  /\ completedSale = <<>>
  /\ timers = <<>>
  /\ Len(cart) = 1
  /\ cart[1].product.stock = StockOf(products, cart[1].product.barcode)
  /\ cart[1].product.stock < MaxStock
  /\ result.success

(***************************************************************************)
(* C21.  processSale validates against the current catalog, not the        *)
(* cart's snapshot: when, between the scan and the checkout, a product of  *)
(* the cart was deleted or its stock fell below the cart quantity (by      *)
(* another sale or a product update), the checkout fails with the          *)
(* product-not-found or the insufficient-stock error of the first such     *)
(* line and changes nothing, although the product recorded in each cart    *)
(* item still shows enough stock.                                          *)
(***************************************************************************)
\* The cart item's own product record shows enough stock for its quantity.
SnapshotSufficient(c) ==
  \A i \in 1..Len(c) : c[i].quantity <= c[i].product.stock

\* The cart item fails against the catalog as it is now.
ItemStale(item) ==
  \/ ~ InCatalog(products, item.product.barcode)
  \/ StockOf(products, item.product.barcode) < item.quantity

\* The error the current catalog gives for a stale cart item.
StaleError(item) ==
  IF ~ InCatalog(products, item.product.barcode)
    THEN "Product " \o item.product.name \o " not found"
    ELSE "Insufficient stock for " \o item.product.name \o ". Available: "
         \o ToString(StockOf(products, item.product.barcode))

C21_CurrentCatalog ==
  [][(/\ handlePaymentComplete("A1B")
      /\ Head(timers).cart # <<>>
      /\ Head(timers).amountPaid >= cartTotal(Head(timers).cart)
      /\ SnapshotSufficient(Head(timers).cart)
      /\ \E i \in 1..Len(Head(timers).cart) : ItemStale(Head(timers).cart[i]))
     => LET c == Head(timers).cart
            first == CHOOSE i \in 1..Len(c) :
                       /\ ItemStale(c[i])
                       /\ \A j \in 1..(i - 1) : ~ ItemStale(c[j])
        IN /\ result' = [success |-> FALSE, error |-> StaleError(c[first])]
           /\ storage' = storage
           /\ cart' = cart
           /\ completedSale' = completedSale]_vars

\* The checkout of a cart whose own records show enough stock was refused
\* because the product is gone from the catalog: nothing was sold and the
\* cart is kept.
C21_Witness ==
  /\ cart # <<>>
  /\ SnapshotSufficient(cart)
  /\ ~ InCatalog(products, cart[1].product.barcode)
  /\ result = [success |-> FALSE,
               error |-> "Product " \o cart[1].product.name \o " not found"]
  /\ sales = <<>>

(***************************************************************************)
(* C22.  Receipt uniqueness: the receipt numbers of all sale records in    *)
(* the ledger are pairwise distinct, also when several sales complete      *)
(* within the same millisecond.                                            *)
(***************************************************************************)
C22_ReceiptsDistinct ==
  \A i, j \in 1..Len(sales) :
     i # j => sales[i].receiptNumber # sales[j].receiptNumber

(***************************************************************************)
(* C23.  StockLog entries are created only by restock and are read-only    *)
(* afterwards: processSale, ProductService.add, update and delete, and     *)
(* the transfer operations create, complete and cancel leave the stock     *)
(* log unchanged, and restock never modifies or removes an existing        *)
(* entry: it leaves the log as it is or puts one entry in front of it.     *)
(***************************************************************************)
C23_StockLogFrame ==
  [][/\ (\/ LogSale
         \/ LedgerAdd
         \/ LedgerUpdate
         \/ LedgerDelete
         \/ LedgerCreate
         \/ LedgerComplete
         \/ LedgerCancel) => stockLogs' = stockLogs
     /\ LogRestock => \/ stockLogs' = stockLogs
                      \/ /\ Len(stockLogs') = Len(stockLogs) + 1
                         /\ \A i \in 1..Len(stockLogs) :
                               stockLogs'[i + 1] = stockLogs[i]
     /\ stockLogs' # stockLogs => LogRestock]_vars

\* Two restocks are in the log, the older one behind the newer one, next
\* to a sale in the ledger and a transfer that was completed or cancelled.
C23_Witness ==
  /\ Len(stockLogs) = 2
  /\ stockLogs[1].previousStock = stockLogs[2].newStock
  /\ stockLogs[1].barcode = stockLogs[2].barcode
  /\ sales # <<>>
  /\ \E i \in 1..Len(transfers) : transfers[i].status # "pending"

(***************************************************************************)
(* C24.  SaleItem snapshots are decoupled from the live catalog: once a    *)
(* sale record is in the ledger, a later ProductService.update (name,      *)
(* price, stock), restock or delete of a product it refers to leaves the   *)
(* barcode, name, price, quantity and total of every stored SaleItem       *)
(* unchanged.                                                              *)
(***************************************************************************)
SameLine(a, b) ==
  /\ a.barcode = b.barcode
  /\ a.name = b.name
  /\ a.price = b.price
  /\ a.quantity = b.quantity
  /\ a.total = b.total

C24_SnapshotsKept ==
  [][(Reprice \/ HistoryRestock \/ Discontinue)
     => /\ Len(sales') = Len(sales)
        /\ \A i \in 1..Len(sales) :
             /\ Len(sales'[i].items) = Len(sales[i].items)
             /\ \A k \in 1..Len(sales[i].items) :
                  SameLine(sales'[i].items[k], sales[i].items[k])]_vars

\* A sale made at the first name and price is in the ledger after the
\* product was renamed and repriced, restocked, and then deleted.
C24_Witness ==
  /\ sales # <<>>
  /\ sales[Len(sales)].items[1].name = "Wireless Mouse"
  /\ sales[Len(sales)].items[1].price = 2999
  /\ stockLogs # <<>>
  /\ stockLogs[1].productName = "Mouse Pro"
  /\ ~ InCatalog(products, "2345678901")

(***************************************************************************)
(* C25.  Transfers never move inventory: StockTransferService.create,      *)
(* complete and cancel leave the stock of every product unchanged; a       *)
(* successful complete only sets the status of the transfer to             *)
(* 'completed' and stamps completedAt, a successful cancel only sets the   *)
(* status to 'cancelled'; every other field and transfer stays as it is.   *)
(***************************************************************************)
\* Transfer k is the one changed, only in the fields named.
OnlyChanged(k, fields) ==
  /\ Len(transfers') = Len(transfers)
  /\ \A i \in 1..Len(transfers) :
       /\ DOMAIN transfers'[i] = DOMAIN transfers[i]
       /\ \A f \in DOMAIN transfers[i] :
            (i # k \/ f \notin fields) => transfers'[i][f] = transfers[i][f]

Rejected ==
  /\ result'.success = FALSE
  /\ result'.error # ""
  /\ products' = products
  /\ storage' = storage

BadUpdate(u) ==
  \/ "price" \in DOMAIN u /\ u["price"] <= 0
  \/ "stock" \in DOMAIN u /\ u["stock"] < 0

C26_ValidationNoOp ==
  [][/\ \A p \in CatalogProducts :
          (CallAdd(p) /\ (p.price <= 0 \/ p.stock < 0)) => Rejected
     /\ \A b \in CatalogCodes, u \in CatalogUpdates :
          (CallUpdate(b, u) /\ (BadUpdate(u) \/ ~ InCatalog(products, b)))
          => Rejected
     /\ \A b \in CatalogCodes :
          (CallDelete(b) /\ ~ InCatalog(products, b)) => Rejected]_vars

\* A product was repriced to 7 and given a stock of 1; the next call was
\* refused for its negative stock and left the price and the stock.
C26_Witness ==
  /\ result = Fail("Stock cannot be negative")
  /\ \E i \in 1..Len(products) : products[i].price = 7 /\ products[i].stock = 1
  /\ Len(products) = 1

(***************************************************************************)
(* C27.  The forecast over the filtered sales window is the insufficient-  *)
(* data sentinel (null) when the window holds fewer than 7 sales;          *)
(* otherwise averageDaily is the arithmetic mean of the revenue of the     *)
(* calendar days that have a sale in the window (the revenue of the        *)
(* window divided by the number of those days), predictedWeekly equals     *)
(* averageDaily * 7, and the series has exactly 7 points, each within 10%  *)
(* of averageDaily.                                                        *)
(***************************************************************************)
Abs(n) == IF n < 0 THEN 0 - n ELSE n

DaysOf(list) == { list[i].timestamp \div DayMs : i \in 1..Len(list) }

\* The quotient a is n times the quotient b.
IsTimes(a, n, b) == a.den # 0 /\ b.den # 0 /\ a.num * b.den = n * b.num * a.den

C27_Forecast ==
  LET window == dashboard.filteredSales
      f == dashboard.forecast
  IN /\ Len(window) < 7 => f = <<>>
     /\ Len(window) >= 7 =>
          /\ Len(f) = 1
          /\ f[1].averageDaily.den > 0
          /\ f[1].averageDaily.num * Cardinality(DaysOf(window))
               = Revenue(window) * f[1].averageDaily.den
          /\ IsTimes(f[1].predictedWeekly, 7, f[1].averageDaily)
          /\ DOMAIN f[1].next7Days = 1..7
          /\ \A i \in 1..7 :
               LET p == f[1].next7Days[i].predicted
                   a == f[1].averageDaily
               IN /\ p.den > 0
                  /\ 10 * Abs(p.num * a.den - a.num * p.den) <= Abs(a.num) * p.den

\* A forecast over a window of at least 7 sales on two days with different
\* revenue, narrower than the sales loaded, with a point below and a point
\* above the average.
C27_Witness ==
  /\ dashboard.forecast # <<>>
  /\ Len(dashboard.filteredSales) >= 7
  /\ Len(dashboard.filteredSales) < Len(dashboard.sales)
  /\ Cardinality(DaysOf(dashboard.filteredSales)) = 2
  /\ dashboard.forecast[1].averageDaily.num * Len(dashboard.filteredSales)
       # Revenue(dashboard.filteredSales) * dashboard.forecast[1].averageDaily.den
  /\ \E i, j \in 1..7 :
       LET a == dashboard.forecast[1].averageDaily
           p == dashboard.forecast[1].next7Days[i].predicted
           q == dashboard.forecast[1].next7Days[j].predicted
       IN /\ p.num * a.den < a.num * p.den
          /\ q.num * a.den > a.num * q.den

(***************************************************************************)
(* C28.  getDailyTotals(date, storeId?) aggregates exactly the sales       *)
(* whose timestamp lies in [00:00:00.000, 23:59:59.999] of the given date  *)
(* (of the store storeId when it is given): totalSales is their number,    *)
(* the counts per payment method sum to totalSales, the amounts per        *)
(* payment method sum to totalRevenue, which is the sum of their totals,   *)
(* and totalItems is the sum of the quantities of all their lines; with    *)
(* no such sale every figure is 0.                                         *)
(***************************************************************************)
\* The places in the ledger of the sales of the day of date (and the store).
OnDay(date, storeId) ==
  { i \in 1..Len(sales) :
      /\ sales[i].timestamp \div DayMs = date \div DayMs
      /\ storeId # <<>> => sales[i].storeId = storeId[1] }

LineUnits(items) ==
  SumValues([k \in 1..Len(items) |-> items[k].quantity], 1..Len(items))

C28_DailyTotals ==
  [][\A date \in TotalsDates, storeId \in TotalsStores :
       CallGetDailyTotals(date, storeId)
       => LET day == OnDay(date, storeId)
              r == result'
              methods == DOMAIN r.byPaymentMethod
          IN /\ r.totalSales = Cardinality(day)
             /\ SumValues([m \in methods |-> r.byPaymentMethod[m].count], methods)
                  = r.totalSales
             /\ SumValues([m \in methods |-> r.byPaymentMethod[m].amount], methods)
                  = r.totalRevenue
             /\ r.totalRevenue = SumValues([i \in day |-> sales[i].total], day)
             /\ r.totalItems
                  = SumValues([i \in day |-> LineUnits(sales[i].items)], day)
             /\ day = {} =>
                  /\ r.totalSales = 0 /\ r.totalRevenue = 0 /\ r.totalItems = 0
                  /\ \A m \in methods :
                       /\ r.byPaymentMethod[m].count = 0
                       /\ r.byPaymentMethod[m].amount = 0]_vars

\* The totals of a day count the sale of three units made in its last
\* millisecond and paid by card, and not the sale made a millisecond later.
C28_Witness ==
  /\ Len(sales) = 2
  /\ sales[1].timestamp = 2 * DayMs
  /\ sales[2].timestamp = 2 * DayMs - 1
  /\ sales[2].paymentMethod = "card"
  /\ "totalSales" \in DOMAIN result
  /\ result.totalSales = 1
  /\ result.totalItems = 3
  /\ result.totalRevenue = 25
  /\ result.byPaymentMethod["card"] = [count |-> 1, amount |-> 25]

(***************************************************************************)
(* C29.  growthRate is the percentage change from the revenue of the       *)
(* older half to the revenue of the newer half of the filtered,            *)
(* newest-first sale list split at its midpoint, and it is zero whenever   *)
(* the data is insufficient to compare two halves: no sale in the window,  *)
(* or a half that contains no sale.                                        *)
(***************************************************************************)
C29_GrowthRate ==
  LET window == dashboard.filteredSales
      g == dashboard.analytics.growthRate
      mid == Len(window) \div 2
      newerHalf == 1..mid
      olderHalf == (mid + 1)..Len(window)
      newer == SumValues([i \in newerHalf |-> window[i].total], newerHalf)
      older == SumValues([i \in olderHalf |-> window[i].total], olderHalf)
  IN /\ g.den # 0
     /\ \A i \in 1..(Len(window) - 1) :
          window[i].timestamp >= window[i + 1].timestamp
     /\ (newerHalf = {} \/ olderHalf = {}) => g.num = 0
     /\ (newerHalf # {} /\ olderHalf # {} /\ older > 0)
          => g.num * older = (newer - older) * 100 * g.den

\* The part of C29 the code keeps: the percentage change whenever the
\* older half has revenue, and zero when the window is empty.
C29_GrowthOfHalves ==
  LET window == dashboard.filteredSales
      g == dashboard.analytics.growthRate
      mid == Len(window) \div 2
      newerHalf == 1..mid
      olderHalf == (mid + 1)..Len(window)
      newer == SumValues([i \in newerHalf |-> window[i].total], newerHalf)
      older == SumValues([i \in olderHalf |-> window[i].total], olderHalf)
  IN /\ g.den # 0
     /\ window = <<>> => g.num = 0
     /\ older > 0 => g.num * older = (newer - older) * 100 * g.den

====
